---------------------------- MODULE Spec2Model ----------------------------
(*************************************************************************)
(* Model of the contact-form demo: the ContactFormValidator rules, the   *)
(* aggregate validateForm, and the ContactForm controller that calls     *)
(* them on blur and on submit.                                           *)
(*                                                                       *)
(* A JavaScript string is a sequence of one-character strings, so that   *)
(* trim(), .length and RegExp.test() are computed on the characters.     *)
(*************************************************************************)
EXTENDS Integers, Sequences, FiniteSets, TLC

VARIABLES
    pc,          \* validator harness: "call" before the call, "return" after,
                 \* "throw" when the call ended with an exception
    call,        \* validator harness: [fn |-> method name, arg |-> argument]
    ret,         \* validator harness: the value the call returned
    statics,     \* the static properties of ContactFormValidator at run time:
                 \* the lastIndex of the two RegExp objects and the minimum
    probe,       \* session: the ContactFormData whose results are compared
    first,       \* session: the first result validateForm gave for probe
    fields,      \* ContactForm: the value of each input of the form
    shown,       \* ContactForm: the error shown next to each input
    formErrors,  \* ContactForm: what the #formErrors element holds
    submissions, \* ContactForm: this.submissions, a JavaScript value
    stored,      \* localStorage: the item 'contactSubmissions'
    counter,     \* ContactForm: the text of the #submissionCount element
    tasks,       \* TaskManagerApp: this.tasks
    nextId,      \* TaskManagerApp: this.nextId
    storedTasks, \* localStorage: the item 'tasks'
    taskList,    \* TaskManagerApp: the tasks the #taskList element shows
    taskCounter, \* TaskManagerApp: the text of the #taskCounter element
    activeFilter, \* TaskManagerApp: the data-filter of the button of class 'active'
    added        \* history: the ids of the tasks stored at first or added since

valVars == <<pc, call, ret, statics, probe, first>>
contactVars == <<fields, shown, formErrors, submissions, stored, counter>>
taskVars == <<tasks, nextId, storedTasks, taskList, taskCounter, activeFilter, added>>
vars == <<valVars, contactVars, taskVars>>

-----------------------------------------------------------------------------
(* Bounds of the input sets.                                              *)

MaxNameLen == 3
MaxEmailLen == 5
MaxPhoneLen == 3
MaxMessageLen == 11

NameAlphabet == {"a", " ", "\t"}
EmailAlphabet == {"a", "@", ".", " "}
PhoneAlphabet == {"7", " ", "-", "+", "(", ")", "x"}
MessageAlphabet == {"m", " "}

\* every string over alphabet A of length at most n
Strs(A, n) == UNION {[1..k -> A] : k \in 0..n}

-----------------------------------------------------------------------------
(* Character classes and the two regular expressions.                     *)

\* the characters \s matches and trim() strips, among those the inputs use
WHITESPACE == {" ", "\t", "\n"}

\* the characters \d matches
DIGITS == {"0", "1", "2", "3", "4", "5", "6", "7", "8", "9"}

\* One element of a pattern: a character class (negated or not), taken
\* once or one-or-more times ("+").
Item(neg, set, plus) == [neg |-> neg, set |-> set, plus |-> plus]

ClassHas(item, c) == (c \in item.set) # item.neg

\* EMAIL_REGEX with [^\s] for [^\s@]: the segments may hold an '@'
EMAIL_REGEX_AtAllowed ==
    << Item(TRUE, WHITESPACE, TRUE),
       Item(FALSE, {"@"}, FALSE),
       Item(TRUE, WHITESPACE, TRUE),
       Item(FALSE, {"."}, FALSE),
       Item(TRUE, WHITESPACE, TRUE) >>

\* /^[^\s@]+@[^\s@]+\.[^\s@]+$/
EMAIL_REGEX ==
    << Item(TRUE, WHITESPACE \cup {"@"}, TRUE),
       Item(FALSE, {"@"}, FALSE),
       Item(TRUE, WHITESPACE \cup {"@"}, TRUE),
       Item(FALSE, {"."}, FALSE),
       Item(TRUE, WHITESPACE \cup {"@"}, TRUE) >>

\* PHONE_REGEX without \s in its class
PHONE_REGEX_NoSpace ==
    << Item(FALSE, DIGITS \cup {"-", "+", "(", ")"}, TRUE) >>

\* /^[\d\s\-\+\(\)]+$/
PHONE_REGEX ==
    << Item(FALSE, DIGITS \cup WHITESPACE \cup {"-", "+", "(", ")"}, TRUE) >>

MIN_MESSAGE_LENGTH == 10

\* EMAIL_REGEX written with the g flag
EMAIL_FLAGS_Global == {"g"}

\* the flags of the two RegExp literals: none
EMAIL_FLAGS == {}

\* PHONE_REGEX written with the g flag
PHONE_FLAGS_Global == {"g"}

PHONE_FLAGS == {}

\* the static properties after class initialisation; a RegExp starts with
\* lastIndex 0
InitialStatics ==
    [EMAIL_REGEX |-> [lastIndex |-> 0],
     PHONE_REGEX |-> [lastIndex |-> 0],
     MIN_MESSAGE_LENGTH |-> MIN_MESSAGE_LENGTH]

\* One step of the pattern's automaton.  A position k means "elements 1..k
\* are matched"; on character c the match stays in element k when it is a
\* "+" element whose class has c, and enters element k+1 when its class has c.
RegexStep(re, ks, c) ==
    {k \in ks : k >= 1 /\ re[k].plus /\ ClassHas(re[k], c)}
    \cup {k + 1 : k \in {j \in ks : j < Len(re) /\ ClassHas(re[j + 1], c)}}

RECURSIVE RegexRun(_, _, _, _)
RegexRun(re, ks, s, i) ==
    IF i > Len(s) THEN ks
    ELSE RegexRun(re, RegexStep(re, ks, s[i]), s, i + 1)

\* whether the whole of s matches a pattern anchored by ^ and $
RegexTest(re, s) == Len(re) \in RegexRun(re, {0}, s, 1)

\* RegExp.prototype.test on a RegExp object with the given flags and
\* lastIndex: the result and the lastIndex it leaves.  Without the g flag the
\* search starts at 0 and lastIndex is not written.  With it the search
\* starts at lastIndex, where ^ can match only if lastIndex is 0; a match
\* sets lastIndex to its end and a failure sets it to 0.
RegExpTest(re, flags, lastIndex, s) ==
    IF "g" \notin flags
    THEN [matched |-> RegexTest(re, s), lastIndex |-> lastIndex]
    ELSE IF lastIndex = 0 /\ RegexTest(re, s)
         THEN [matched |-> TRUE, lastIndex |-> Len(s)]
         ELSE [matched |-> FALSE, lastIndex |-> 0]

-----------------------------------------------------------------------------
(* String.prototype.trim                                                  *)

RECURSIVE trimStart(_)
trimStart(s) ==
    IF s # <<>> /\ Head(s) \in WHITESPACE THEN trimStart(Tail(s)) ELSE s

RECURSIVE trimEnd(_)
trimEnd(s) ==
    IF s # <<>> /\ s[Len(s)] \in WHITESPACE
    THEN trimEnd(SubSeq(s, 1, Len(s) - 1))
    ELSE s

trim(s) == trimEnd(trimStart(s))

-----------------------------------------------------------------------------
(* ContactFormValidator                                                   *)

validateEmail(email) ==
    RegExpTest(EMAIL_REGEX, EMAIL_FLAGS, statics.EMAIL_REGEX.lastIndex, email).matched

validatePhone(phone) ==
    \/ Len(phone) = 0
    \/ RegExpTest(PHONE_REGEX, PHONE_FLAGS, statics.PHONE_REGEX.lastIndex, phone).matched

\* the static properties after validateEmail(email)
StaticsAfterEmail(st, email) ==
    [st EXCEPT !.EMAIL_REGEX.lastIndex =
        RegExpTest(EMAIL_REGEX, EMAIL_FLAGS, @, email).lastIndex]

\* the static properties after validatePhone(phone): test() runs only on a
\* non-empty phone
StaticsAfterPhone(st, phone) ==
    IF Len(phone) = 0 THEN st
    ELSE [st EXCEPT !.PHONE_REGEX.lastIndex =
            RegExpTest(PHONE_REGEX, PHONE_FLAGS, @, phone).lastIndex]

\* validateName without the trim()
validateName_NoTrim(name) == Len(name) >= 2

validateName(name) == Len(trim(name)) >= 2

\* validateMessage with > for >=
validateMessage_Strict(message) == Len(trim(message)) > statics.MIN_MESSAGE_LENGTH

validateMessage(message) == Len(trim(message)) >= statics.MIN_MESSAGE_LENGTH

NAME_ERROR == "Name must be at least 2 characters long"
EMAIL_ERROR == "Please enter a valid email address"
PHONE_ERROR == "Please enter a valid phone number"
MESSAGE_ERROR ==
    "Message must be at least " \o ToString(statics.MIN_MESSAGE_LENGTH)
        \o " characters long"

\* ContactFormData.phone is optional: a form without it has no "phone" field
HasPhone(data) == "phone" \in DOMAIN data

\* JavaScript truthiness of data.phone: present and not the empty string
PhoneTruthy(data) == HasPhone(data) /\ data.phone # <<>>

\* validateForm with isValid taken before the message rule is evaluated
validateForm_EarlyIsValid(data) ==
    LET e1 == IF ~validateName(data.name) THEN <<NAME_ERROR>> ELSE <<>>
        e2 == IF ~validateEmail(data.email) THEN Append(e1, EMAIL_ERROR) ELSE e1
        e3 == IF PhoneTruthy(data) /\ ~validatePhone(data.phone)
              THEN Append(e2, PHONE_ERROR) ELSE e2
        e4 == IF ~validateMessage(data.message)
              THEN Append(e3, MESSAGE_ERROR) ELSE e3
    IN  [isValid |-> Len(e3) = 0, errors |-> e4]

\* validateForm that stops at the first failing rule
validateForm_ShortCircuit(data) ==
    LET e == IF ~validateName(data.name) THEN <<NAME_ERROR>>
             ELSE IF ~validateEmail(data.email) THEN <<EMAIL_ERROR>>
             ELSE IF PhoneTruthy(data) /\ ~validatePhone(data.phone)
                  THEN <<PHONE_ERROR>>
             ELSE IF ~validateMessage(data.message) THEN <<MESSAGE_ERROR>>
             ELSE <<>>
    IN  [isValid |-> Len(e) = 0, errors |-> e]

\* validateForm with the phone rule evaluated after the message rule
validateForm_PhoneLast(data) ==
    LET e1 == IF ~validateName(data.name) THEN <<NAME_ERROR>> ELSE <<>>
        e2 == IF ~validateEmail(data.email) THEN Append(e1, EMAIL_ERROR) ELSE e1
        e3 == IF ~validateMessage(data.message)
              THEN Append(e2, MESSAGE_ERROR) ELSE e2
        e4 == IF PhoneTruthy(data) /\ ~validatePhone(data.phone)
              THEN Append(e3, PHONE_ERROR) ELSE e3
    IN  [isValid |-> Len(e4) = 0, errors |-> e4]

\* validateForm that treats the phone as a required field
validateForm_PhoneRequired(data) ==
    LET e1 == IF ~validateName(data.name) THEN <<NAME_ERROR>> ELSE <<>>
        e2 == IF ~validateEmail(data.email) THEN Append(e1, EMAIL_ERROR) ELSE e1
        e3 == IF ~PhoneTruthy(data) \/ ~validatePhone(data.phone)
              THEN Append(e2, PHONE_ERROR) ELSE e2
        e4 == IF ~validateMessage(data.message)
              THEN Append(e3, MESSAGE_ERROR) ELSE e3
    IN  [isValid |-> Len(e4) = 0, errors |-> e4]

validateForm(data) ==
    LET e1 == IF ~validateName(data.name) THEN <<NAME_ERROR>> ELSE <<>>
        e2 == IF ~validateEmail(data.email) THEN Append(e1, EMAIL_ERROR) ELSE e1
        e3 == IF PhoneTruthy(data) /\ ~validatePhone(data.phone)
              THEN Append(e2, PHONE_ERROR) ELSE e2
        e4 == IF ~validateMessage(data.message)
              THEN Append(e3, MESSAGE_ERROR) ELSE e3
    IN  [isValid |-> Len(e4) = 0, errors |-> e4]

\* validateForm without the "data.phone &&" guard: validatePhone is reached
\* with whatever data.phone is
validateFormCallsPhone_NoGuard(data) == TRUE

\* whether validateForm reaches validatePhone(data.phone): only when
\* data.phone is truthy
validateFormCallsPhone(data) == PhoneTruthy(data)

\* validateForm raises a TypeError when validatePhone reads phone.length of
\* an absent phone; nothing else in it can raise on string fields
validateFormThrows(data) == validateFormCallsPhone(data) /\ ~HasPhone(data)

\* the static properties after validateForm(data)
StaticsAfterForm(st, data) ==
    LET st1 == StaticsAfterEmail(st, data.email)
    IN  IF PhoneTruthy(data) THEN StaticsAfterPhone(st1, data.phone) ELSE st1

-----------------------------------------------------------------------------
(* ContactForm: the per-field check run on blur.                          *)
(*                                                                        *)
(* A field is [id, value, error, cls]: the element's id and value, the    *)
(* text of the .field-error element shown next to it ("" when there is    *)
(* none), and whether the element carries the class "error".              *)

FIELD_NAME_ERROR == "Name must be at least 2 characters"
FIELD_EMAIL_ERROR == "Invalid email address"
FIELD_PHONE_ERROR == "Invalid phone number"
\* the field message with the minimum written into the text
FIELD_MESSAGE_ERROR_HardCoded == "Message must be at least 10 characters"

FIELD_MESSAGE_ERROR ==
    "Message must be at least " \o ToString(statics.MIN_MESSAGE_LENGTH)
        \o " characters"

\* the switch of validateField with the phone taken as a required field
fieldErrorMessage_PhoneRequired(id, value) ==
    CASE id = "contactName" ->
           IF ~validateName(value) THEN FIELD_NAME_ERROR ELSE ""
      [] id = "contactEmail" ->
           IF ~validateEmail(value) THEN FIELD_EMAIL_ERROR ELSE ""
      [] id = "contactPhone" ->
           IF value = <<>> \/ ~validatePhone(value) THEN FIELD_PHONE_ERROR ELSE ""
      [] id = "contactMessage" ->
           IF ~validateMessage(value) THEN FIELD_MESSAGE_ERROR ELSE ""
      [] OTHER -> ""

\* the switch of validateField with a default branch that reports an error
fieldErrorMessage_DefaultError(id, value) ==
    CASE id = "contactName" ->
           IF ~validateName(value) THEN FIELD_NAME_ERROR ELSE ""
      [] id = "contactEmail" ->
           IF ~validateEmail(value) THEN FIELD_EMAIL_ERROR ELSE ""
      [] id = "contactPhone" ->
           IF value # <<>> /\ ~validatePhone(value) THEN FIELD_PHONE_ERROR ELSE ""
      [] id = "contactMessage" ->
           IF ~validateMessage(value) THEN FIELD_MESSAGE_ERROR ELSE ""
      [] OTHER -> "Unknown field"

\* the switch of validateField with a text of its own for an empty email
fieldErrorMessage_EmptyEmailText(id, value) ==
    CASE id = "contactName" ->
           IF ~validateName(value) THEN FIELD_NAME_ERROR ELSE ""
      [] id = "contactEmail" ->
           IF value = <<>> THEN "Email is required"
           ELSE IF ~validateEmail(value) THEN FIELD_EMAIL_ERROR ELSE ""
      [] id = "contactPhone" ->
           IF value # <<>> /\ ~validatePhone(value) THEN FIELD_PHONE_ERROR ELSE ""
      [] id = "contactMessage" ->
           IF ~validateMessage(value) THEN FIELD_MESSAGE_ERROR ELSE ""
      [] OTHER -> ""

\* the switch of validateField: the value of errorMessage after it
fieldErrorMessage(id, value) ==
    CASE id = "contactName" ->
           IF ~validateName(value) THEN FIELD_NAME_ERROR ELSE ""
      [] id = "contactEmail" ->
           IF ~validateEmail(value) THEN FIELD_EMAIL_ERROR ELSE ""
      [] id = "contactPhone" ->
           IF value # <<>> /\ ~validatePhone(value) THEN FIELD_PHONE_ERROR ELSE ""
      [] id = "contactMessage" ->
           IF ~validateMessage(value) THEN FIELD_MESSAGE_ERROR ELSE ""
      [] OTHER -> ""

\* removes the .field-error element and the class "error"
clearFieldError(field) == [field EXCEPT !.error = "", !.cls = FALSE]

\* clears the existing error, then shows message and adds the class "error"
showFieldError(field, message) ==
    [clearFieldError(field) EXCEPT !.error = message, !.cls = TRUE]

validateField(field) ==
    LET errorMessage == fieldErrorMessage(field.id, field.value)
    IN  IF errorMessage # "" THEN showFieldError(field, errorMessage)
        ELSE clearFieldError(field)

\* the static properties after validateField(field)
StaticsAfterField(st, field) ==
    CASE field.id = "contactEmail" -> StaticsAfterEmail(st, field.value)
      [] field.id = "contactPhone" -> StaticsAfterPhone(st, field.value)
      [] OTHER -> st

-----------------------------------------------------------------------------
(* JavaScript values and JSON.                                            *)
(*                                                                        *)
(* A value is null, a boolean, a number, a string, a Date, an object whose *)
(* properties (in insertion order) hold such values, or an array of these. *)
(* A JSON text is the sequence of its tokens.                              *)

JSNull == [t |-> "null"]
JSUndefined == [t |-> "undefined"]
JSBoolean(b) == [t |-> "boolean", b |-> b]
JSNumber(n) == [t |-> "number", n |-> n]
JSString(s) == [t |-> "string", s |-> s]
JSDate(ms) == [t |-> "date", ms |-> ms]
InvalidDate == [t |-> "invalid date"]
JSObject(props) == [t |-> "object", props |-> props]
JSArray(items) == [t |-> "array", items |-> items]

Prop(key, value) == [key |-> key, value |-> value]

Tok(k) == [k |-> k]
NumberTok(n) == [k |-> "number", n |-> n]
StringTok(s) == [k |-> "string", s |-> s]
KeyTok(key) == [k |-> "key", key |-> key]

\* the texts of xs with a "," between them
RECURSIVE Joined(_)
Joined(xs) ==
    IF xs = <<>> THEN <<>>
    ELSE IF Len(xs) = 1 THEN xs[1]
    ELSE xs[1] \o <<Tok(",")>> \o Joined(Tail(xs))

\* the decimal digits of a natural number
RECURSIVE DigitsOf(_)
DigitsOf(n) ==
    IF n < 10 THEN <<ToString(n)>> ELSE Append(DigitsOf(n \div 10), ToString(n % 10))

\* the natural number a sequence of decimal digits stands for
RECURSIVE NumberOf(_)
NumberOf(ds) ==
    LET \* the number a digit stands for
        DigitValue(c) == CHOOSE d \in 0..9 : ToString(d) = c
    IN  IF ds = <<>> THEN 0
        ELSE 10 * NumberOf(SubSeq(ds, 1, Len(ds) - 1)) + DigitValue(ds[Len(ds)])

\* Date.prototype.toISOString: the time, written between "T" and "Z"
toISOString(ms) == <<"T">> \o DigitsOf(ms) \o <<"Z">>

\* is the string what toISOString writes for some time
IsISOString(str) ==
    /\ Len(str) >= 3
    /\ str[1] = "T"
    /\ str[Len(str)] = "Z"
    /\ \A i \in 2..(Len(str) - 1) : str[i] \in DIGITS

\* the time an ISO string stands for
TimeOfISOString(str) == NumberOf(SubSeq(str, 2, Len(str) - 1))

\* the token of a null, boolean, number, string or Date (whose toJSON is
\* its ISO string, and null when the Date is invalid)
ScalarTok(v) ==
    CASE v.t = "null" -> Tok("null")
      [] v.t = "boolean" -> Tok(IF v.b THEN "true" ELSE "false")
      [] v.t = "number" -> NumberTok(v.n)
      [] v.t = "string" -> StringTok(v.s)
      [] v.t = "date" -> StringTok(toISOString(v.ms))
      [] v.t = "invalid date" -> Tok("null")

\* JSON.stringify of a value that is no array
StringifyFlat(v) ==
    IF v.t = "object"
    THEN <<Tok("{")>>
         \o Joined([i \in 1..Len(v.props) |->
                      <<KeyTok(v.props[i].key), ScalarTok(v.props[i].value)>>])
         \o <<Tok("}")>>
    ELSE <<ScalarTok(v)>>

\* JSON.stringify
JSONstringify(v) ==
    IF v.t = "array"
    THEN <<Tok("[")>>
         \o Joined([i \in 1..Len(v.items) |-> StringifyFlat(v.items[i])])
         \o <<Tok("]")>>
    ELSE StringifyFlat(v)

\* the result of a parsing step: the value read and the place after it, or
\* a SyntaxError
Parsed(value, next) == [ok |-> TRUE, value |-> value, next |-> next]
SyntaxError == [ok |-> FALSE, value |-> JSNull, next |-> 0]

\* is the token a null, boolean, number or string
IsScalarTok(tok) == tok.k \in {"null", "true", "false", "number", "string"}

\* the value a scalar token stands for
ScalarOf(tok) ==
    CASE tok.k = "null" -> JSNull
      [] tok.k = "true" -> JSBoolean(TRUE)
      [] tok.k = "false" -> JSBoolean(FALSE)
      [] tok.k = "number" -> JSNumber(tok.n)
      [] tok.k = "string" -> JSString(tok.s)

\* the properties of an object from place i on; props holds those read and
\* more says that a property has to follow
RECURSIVE ParseProps(_, _, _, _)
ParseProps(text, i, props, more) ==
    IF i > Len(text) THEN SyntaxError
    ELSE IF text[i].k = "}" /\ ~more THEN Parsed(JSObject(props), i + 1)
    ELSE IF text[i].k = "," /\ ~more /\ props # <<>>
         THEN ParseProps(text, i + 1, props, TRUE)
    ELSE IF /\ text[i].k = "key"
            /\ (more \/ props = <<>>)
            /\ i + 1 <= Len(text)
            /\ IsScalarTok(text[i + 1])
         THEN ParseProps(text, i + 2,
                         Append(props, Prop(text[i].key, ScalarOf(text[i + 1]))), FALSE)
    ELSE SyntaxError

\* a null, boolean, number, string or object at place i
ParseFlat(text, i) ==
    IF i > Len(text) THEN SyntaxError
    ELSE IF IsScalarTok(text[i]) THEN Parsed(ScalarOf(text[i]), i + 1)
    ELSE IF text[i].k = "{" THEN ParseProps(text, i + 1, <<>>, FALSE)
    ELSE SyntaxError

\* the elements of an array from place i on
RECURSIVE ParseItems(_, _, _, _)
ParseItems(text, i, items, more) ==
    IF i > Len(text) THEN SyntaxError
    ELSE IF text[i].k = "]" /\ ~more THEN Parsed(JSArray(items), i + 1)
    ELSE IF text[i].k = "," /\ ~more /\ items # <<>>
         THEN ParseItems(text, i + 1, items, TRUE)
    ELSE IF more \/ items = <<>>
         THEN LET r == ParseFlat(text, i)
              IN  IF r.ok THEN ParseItems(text, r.next, Append(items, r.value), FALSE)
                  ELSE SyntaxError
    ELSE SyntaxError

\* JSON.parse: the value of the whole text, or a SyntaxError
JSONparse(text) ==
    LET r == IF text # <<>> /\ text[1].k = "[" THEN ParseItems(text, 2, <<>>, FALSE)
             ELSE ParseFlat(text, 1)
    IN  IF r.ok /\ r.next = Len(text) + 1 THEN r ELSE SyntaxError

\* what localStorage.getItem gives: null, or the text of the item
NoItem == [present |-> FALSE, text |-> <<>>]
StoredItem(text) == [present |-> TRUE, text |-> text]

\* the truthiness of what getItem gave: an item with a non-empty text
ItemTruthy(item) == item.present /\ item.text # <<>>

-----------------------------------------------------------------------------
(* Inputs of the validator harness.                                       *)

\* name values: "", "A", "Al", " A", "A ", two spaces, " Al "
FormNames ==
    { <<>>,
      <<"A">>,
      <<"A", "l">>,
      <<" ", "A">>,
      <<"A", " ">>,
      <<" ", " ">>,
      <<" ", "A", "l", " ">> }

\* email values: "", "bad", "al@x.com", "a@b", "a@b.co", "a b@c.com", "a@b@c.d", "a@b..co"
FormEmails ==
    { <<>>,
      <<"b", "a", "d">>,
      <<"a", "l", "@", "x", ".", "c", "o", "m">>,
      <<"a", "@", "b">>,
      <<"a", "@", "b", ".", "c", "o">>,
      <<"a", " ", "b", "@", "c", ".", "c", "o", "m">>,
      <<"a", "@", "b", "@", "c", ".", "d">>,
      <<"a", "@", "b", ".", ".", "c", "o">> }

\* phone values: "", "123-456-7890", "call me", " ", "+1 (2)", "12x"
FormPhones ==
    { <<>>,
      <<"1", "2", "3", "-", "4", "5", "6", "-", "7", "8", "9", "0">>,
      <<"c", "a", "l", "l", " ", "m", "e">>,
      <<" ">>,
      <<"+", "1", " ", "(", "2", ")">>,
      <<"1", "2", "x">> }

\* message values: "", "short", "0123456789", "exactly10!", "012345678",
\* " 012345678 ", ten spaces, " 0123456789 "
FormMessages ==
    { <<>>,
      <<"s", "h", "o", "r", "t">>,
      <<"0", "1", "2", "3", "4", "5", "6", "7", "8", "9">>,
      <<"e", "x", "a", "c", "t", "l", "y", "1", "0", "!">>,
      <<"0", "1", "2", "3", "4", "5", "6", "7", "8">>,
      <<" ", "0", "1", "2", "3", "4", "5", "6", "7", "8", " ">>,
      <<" ", " ", " ", " ", " ", " ", " ", " ", " ", " ">>,
      <<" ", "0", "1", "2", "3", "4", "5", "6", "7", "8", "9", " ">> }

\* every ContactFormData of the harness: phone present or absent
FormInputs ==
    [name : FormNames, email : FormEmails, message : FormMessages, phone : FormPhones]
    \cup [name : FormNames, email : FormEmails, message : FormMessages]

\* the ids the switch of validateField names
FormFieldIds == {"contactName", "contactEmail", "contactPhone", "contactMessage"}

\* the ids of the other input and textarea elements of the form
OtherFieldIds == {"contactSubject"}

\* the values a field of the given id takes in the harness
FieldValues(id) ==
    CASE id = "contactName" -> Strs(NameAlphabet, MaxNameLen)
      [] id = "contactEmail" -> Strs(EmailAlphabet, MaxEmailLen)
      [] id = "contactPhone" -> Strs(PhoneAlphabet, MaxPhoneLen)
      [] id = "contactMessage" -> Strs(MessageAlphabet, MaxMessageLen)
      [] OTHER -> Strs(NameAlphabet, MaxNameLen)

\* what a field shows before the call: nothing, or the error an earlier
\* blur left on it
ShownBefore(id) ==
    {[error |-> "", cls |-> FALSE]}
    \cup {[error |-> fieldErrorMessage(id, v), cls |-> TRUE] :
            v \in {w \in FormNames \cup FormEmails \cup FormPhones \cup FormMessages :
                     fieldErrorMessage(id, w) # ""}}

\* every field element validateField is called with
FieldInputs ==
    UNION {
      {[id |-> id, value |-> v, error |-> d.error, cls |-> d.cls] :
         v \in FieldValues(id), d \in ShownBefore(id)}
      : id \in FormFieldIds \cup OtherFieldIds}

\* every call the harness makes: a rule on a string of its input set,
\* validateForm on a ContactFormData, or validateField on a field element
Calls ==
    [fn : {"validateName"}, arg : Strs(NameAlphabet, MaxNameLen)]
    \cup [fn : {"validateEmail"}, arg : Strs(EmailAlphabet, MaxEmailLen)]
    \cup [fn : {"validatePhone"}, arg : Strs(PhoneAlphabet, MaxPhoneLen)]
    \cup [fn : {"validateMessage"}, arg : Strs(MessageAlphabet, MaxMessageLen)]
    \cup [fn : {"validateForm"}, arg : FormInputs]
    \cup [fn : {"validateField"}, arg : FieldInputs]

\* no form is compared outside a session
NoProbe == [name |-> <<>>, email |-> <<>>, message |-> <<>>]

\* validateForm(probe) has not returned yet
NotSeen ==
    [seen |-> FALSE, others |-> FALSE,
     result |-> [isValid |-> FALSE, errors |-> <<>>]]

\* the inputs after the page is loaded and after formElement.reset()
ResetFields == [id \in FormFieldIds |-> <<>>]

NoFieldErrors == [id \in FormFieldIds |-> [error |-> "", cls |-> FALSE]]

NoFormErrors == [errors |-> <<>>, success |-> FALSE]

NoCount == ""

\* no ContactForm is constructed
NoContactForm ==
    /\ fields = ResetFields
    /\ shown = NoFieldErrors
    /\ formErrors = NoFormErrors
    /\ submissions = JSArray(<<>>)
    /\ stored = NoItem
    /\ counter = NoCount

\* no TaskManagerApp is constructed
NoTaskManager ==
    /\ tasks = <<>>
    /\ nextId = 1
    /\ storedTasks = NoItem
    /\ taskList = <<>>
    /\ taskCounter = ""
    /\ activeFilter = "all"
    /\ added = {}

InitValidator ==
    /\ statics = InitialStatics
    /\ pc = "call"
    /\ call \in Calls
    /\ ret = "none"
    /\ probe = NoProbe
    /\ first = NotSeen
    /\ NoContactForm
    /\ NoTaskManager

CallValidateName ==
    /\ pc = "call" /\ call.fn = "validateName"
    /\ ret' = validateName(call.arg)
    /\ pc' = "return"
    /\ UNCHANGED <<call, statics, probe, first>>
    /\ UNCHANGED <<contactVars, taskVars>>

CallValidateEmail ==
    /\ pc = "call" /\ call.fn = "validateEmail"
    /\ ret' = validateEmail(call.arg)
    /\ statics' = StaticsAfterEmail(statics, call.arg)
    /\ pc' = "return"
    /\ UNCHANGED <<call, probe, first>>
    /\ UNCHANGED <<contactVars, taskVars>>

CallValidatePhone ==
    /\ pc = "call" /\ call.fn = "validatePhone"
    /\ ret' = validatePhone(call.arg)
    /\ statics' = StaticsAfterPhone(statics, call.arg)
    /\ pc' = "return"
    /\ UNCHANGED <<call, probe, first>>
    /\ UNCHANGED <<contactVars, taskVars>>

CallValidateMessage ==
    /\ pc = "call" /\ call.fn = "validateMessage"
    /\ ret' = validateMessage(call.arg)
    /\ pc' = "return"
    /\ UNCHANGED <<call, statics, probe, first>>
    /\ UNCHANGED <<contactVars, taskVars>>

\* validateForm returns its result, or ends with the TypeError raised after
\* the name and email rules ran
CallValidateForm ==
    /\ pc = "call" /\ call.fn = "validateForm"
    /\ IF validateFormThrows(call.arg)
       THEN /\ ret' = "TypeError"
            /\ statics' = StaticsAfterEmail(statics, call.arg.email)
            /\ pc' = "throw"
       ELSE /\ ret' = validateForm(call.arg)
            /\ statics' = StaticsAfterForm(statics, call.arg)
            /\ pc' = "return"
    /\ UNCHANGED <<call, probe, first>>
    /\ UNCHANGED <<contactVars, taskVars>>

CallValidateField ==
    /\ pc = "call" /\ call.fn = "validateField"
    /\ ret' = validateField(call.arg)
    /\ statics' = StaticsAfterField(statics, call.arg)
    /\ pc' = "return"
    /\ UNCHANGED <<call, probe, first>>
    /\ UNCHANGED <<contactVars, taskVars>>

NextValidator ==
    \/ CallValidateName
    \/ CallValidateEmail
    \/ CallValidatePhone
    \/ CallValidateMessage
    \/ CallValidateForm
    \/ CallValidateField

SpecValidator == InitValidator /\ [][NextValidator]_vars

-----------------------------------------------------------------------------
(* The validator built with another MIN_MESSAGE_LENGTH.                   *)

\* the minimums the class is built with
ConfiguredMinimums == 0..MaxMessageLen

\* the calls made on a class built with another minimum
ConfiguredCalls ==
    [fn : {"validateName"}, arg : FormNames]
    \cup [fn : {"validateEmail"}, arg : FormEmails]
    \cup [fn : {"validatePhone"}, arg : FormPhones]
    \cup [fn : {"validateMessage"}, arg : Strs(MessageAlphabet, MaxMessageLen)]
    \cup [fn : {"validateForm"},
          \* the forms whose message is checked against another minimum
          arg : [name : { <<"A">>, <<"A", "l">> },
                 email : { <<"a", "@", "b", ".", "c", "o">> },
                 message : FormMessages,
                 phone : { <<>>, <<"1", "2", "x">> }]]
    \cup [fn : {"validateField"},
          arg : UNION {
            {[id |-> id, value |-> v, error |-> "", cls |-> FALSE] :
               v \in IF id = "contactName" THEN FormNames
                     ELSE IF id = "contactEmail" THEN FormEmails
                     ELSE IF id = "contactPhone" THEN FormPhones
                     ELSE FormMessages}
            : id \in FormFieldIds \cup OtherFieldIds}]

InitConfigured ==
    /\ \E n \in ConfiguredMinimums :
          statics = [InitialStatics EXCEPT !.MIN_MESSAGE_LENGTH = n]
    /\ pc = "call"
    /\ call \in ConfiguredCalls
    /\ ret = "none"
    /\ probe = NoProbe
    /\ first = NotSeen
    /\ NoContactForm
    /\ NoTaskManager

SpecConfigured == InitConfigured /\ [][NextValidator]_vars

-----------------------------------------------------------------------------
(* A session: validator calls made one after the other on the same class. *)

SessionNames == { <<"A">>, <<"A", "l">> }

SessionEmails == { <<"b", "a", "d">>, <<"a", "@", "b", ".", "c", "o">> }

SessionPhones == { <<>>, <<"1", "2", "x">>, <<"+", "1", " ", "(", "2", ")">> }

SessionMessages ==
    { <<"s", "h", "o", "r", "t">>,
      <<"0", "1", "2", "3", "4", "5", "6", "7", "8", "9">> }

SessionForms ==
    [name : SessionNames, email : SessionEmails, message : SessionMessages,
     phone : SessionPhones]
    \cup [name : SessionNames, email : SessionEmails, message : SessionMessages]

SessionFields ==
    LET \* the values of the field of the given id in a session
        SessionValues(id) ==
            CASE id = "contactName" -> SessionNames
              [] id = "contactEmail" -> SessionEmails
              [] id = "contactPhone" -> SessionPhones
              [] id = "contactMessage" -> SessionMessages
              [] OTHER -> SessionNames
    IN
    UNION {
      {[id |-> id, value |-> v, error |-> "", cls |-> FALSE] : v \in SessionValues(id)}
      : id \in FormFieldIds \cup OtherFieldIds}

SessionCalls ==
    [fn : {"validateName"}, arg : SessionNames]
    \cup [fn : {"validateEmail"}, arg : SessionEmails]
    \cup [fn : {"validatePhone"}, arg : SessionPhones]
    \cup [fn : {"validateMessage"}, arg : SessionMessages]
    \cup [fn : {"validateForm"}, arg : SessionForms]
    \cup [fn : {"validateField"}, arg : SessionFields]

InitSession ==
    /\ pc = "call"
    /\ call \in SessionCalls
    /\ ret = "none"
    /\ statics = InitialStatics
    /\ probe \in SessionForms
    /\ first = NotSeen
    /\ NoContactForm
    /\ NoTaskManager

\* the call that returned was validateForm(probe)
WasProbeCall == call.fn = "validateForm" /\ call.arg = probe

\* after a return the caller makes its next call; the first result of
\* validateForm(probe) is kept, and whether other calls followed it
NextCall ==
    /\ pc = "return"
    /\ call' \in SessionCalls
    /\ pc' = "call"
    /\ ret' = "none"
    /\ first' = IF ~first.seen
                THEN IF WasProbeCall
                     THEN [seen |-> TRUE, others |-> FALSE, result |-> ret]
                     ELSE first
                ELSE [first EXCEPT !.others = @ \/ ~WasProbeCall]
    /\ UNCHANGED <<statics, probe>>
    /\ UNCHANGED <<contactVars, taskVars>>

NextSession ==
    \/ NextValidator
    \/ NextCall

SpecSession == InitSession /\ [][NextSession]_vars

-----------------------------------------------------------------------------
(* ContactForm: the form element, its listeners, the submission log and    *)
(* localStorage.                                                           *)
(*                                                                         *)
(* The page holds the four inputs handleSubmit reads, each in a parent of  *)
(* its own, an element #formErrors and an element #submissionCount; an     *)
(* input holds the empty string when the page is loaded or the form reset, *)
(* and #submissionCount holds no text until the program writes one.        *)

MaxSubmissions == 2

\* the values the user types into the input of the given id
ContactValues(id) ==
    CASE id = "contactName" -> {<<>>, <<" ", "A", "l", " ">>}
      [] id = "contactEmail" -> {<<>>, <<"a", "@", "b", ".", "c">>}
      [] id = "contactPhone" -> {<<>>, <<"1", "2", "x">>, <<"+", "1", " ">>}
      [] id = "contactMessage" ->
           {<<>>, <<"0", "1", "2", "3", "4", "5", "6", "7", "8", "9">>}

\* the object literal handleSubmit builds from the inputs
FormDataOf(f) ==
    [name |-> f["contactName"], email |-> f["contactEmail"],
     message |-> f["contactMessage"], phone |-> f["contactPhone"]]

\* { ...data }: the properties of data, copied in the order of the literal
SpreadOf(data) ==
    JSObject(<<Prop("name", JSString(data.name)), Prop("email", JSString(data.email)),
               Prop("message", JSString(data.message)),
               Prop("phone", JSString(data.phone))>>)

\* does reading a property of the value throw a TypeError
ThrowsOnProperty(v) == v.t = "null"

\* `${value.length}`
LengthText(v) ==
    CASE v.t = "array" -> ToString(Len(v.items))
      [] v.t = "string" -> ToString(Len(v.s))
      [] OTHER -> "undefined"

\* does this.submissions.push(entry) throw: null has no properties, and
\* only an array has a function push
PushThrows(v) == v.t # "array"

\* the text updateSubmissionCount writes
updateSubmissionCount(subs) == "Total submissions: " \o LengthText(subs)

\* loadSubmissions: the log and the counter text after it, the log being []
\* and the counter text c before it
loadSubmissions(item, c) ==
    IF ~ItemTruthy(item) THEN [submissions |-> JSArray(<<>>), counter |-> c]
    ELSE LET r == JSONparse(item.text)
         IN  IF ~r.ok THEN [submissions |-> JSArray(<<>>), counter |-> c]
             ELSE IF ThrowsOnProperty(r.value)
                  THEN [submissions |-> r.value, counter |-> c]
                  ELSE [submissions |-> r.value,
                        counter |-> updateSubmissionCount(r.value)]

\* a log that takes the new entry at its front
pushSubmission_AtFront(subs, data) == JSArray(<<SpreadOf(data)>> \o subs.items)

\* the log after this.submissions.push(Object.freeze({ ...data }))
pushSubmission(subs, data) == JSArray(Append(subs.items, SpreadOf(data)))

\* an entry an earlier visit saved
EarlierEntry ==
    SpreadOf([name |-> <<"B", "o">>, email |-> <<"b", "@", "c", ".", "d">>,
              message |-> <<"0", "1", "2", "3", "4", "5", "6", "7", "8", "9">>,
              phone |-> <<>>])

\* what localStorage holds when the page is loaded: nothing, the empty
\* string, a text that is no JSON, the JSON of a value that is no array,
\* the JSON of an array
StoredAtLoad ==
    {NoItem, StoredItem(<<>>), StoredItem(<<Tok("{")>>)}
    \cup {StoredItem(JSONstringify(v)) :
            v \in {JSNull, JSNumber(7), JSString(<<"a", "b">>), JSObject(<<>>),
                   JSArray(<<>>), JSArray(<<EarlierEntry>>)}}

\* the validator, idle while the form runs
ValidatorIdle ==
    /\ pc = "idle"
    /\ call = [fn |-> "none"]
    /\ ret = "none"
    /\ probe = NoProbe
    /\ first = NotSeen

\* the page is loaded and new ContactForm('contactForm') has run
InitContact ==
    /\ statics = InitialStatics
    /\ ValidatorIdle
    /\ stored \in StoredAtLoad
    /\ fields = ResetFields
    /\ shown = NoFieldErrors
    /\ formErrors = NoFormErrors
    /\ submissions = loadSubmissions(stored, NoCount).submissions
    /\ counter = loadSubmissions(stored, NoCount).counter
    /\ NoTaskManager

\* the user edits an input
Type ==
    \E id \in FormFieldIds : \E v \in ContactValues(id) :
        /\ fields' = [fields EXCEPT ![id] = v]
        /\ UNCHANGED <<valVars, shown, formErrors, submissions, stored, counter>>
        /\ UNCHANGED taskVars

FieldElement(id) ==
    [id |-> id, value |-> fields[id], error |-> shown[id].error, cls |-> shown[id].cls]

ShownOf(field) == [error |-> field.error, cls |-> field.cls]

\* the blur listener
Blur ==
    \E id \in FormFieldIds :
        /\ shown' = [shown EXCEPT ![id] = ShownOf(validateField(FieldElement(id)))]
        /\ statics' = StaticsAfterField(statics, FieldElement(id))
        /\ UNCHANGED <<pc, call, ret, probe, first>>
        /\ UNCHANGED <<fields, formErrors, submissions, stored, counter>>
        /\ UNCHANGED taskVars

\* the focus listener
Focus ==
    \E id \in FormFieldIds :
        /\ shown' = [shown EXCEPT ![id] = ShownOf(clearFieldError(FieldElement(id)))]
        /\ UNCHANGED <<valVars, fields, formErrors, submissions, stored, counter>>
        /\ UNCHANGED taskVars

\* showFormErrors: the error box lists the errors in their order
showFormErrors(errors) == [errors |-> errors, success |-> FALSE]

\* showSuccess: the success message is appended to #formErrors
showSuccess(shownErrors) == [shownErrors EXCEPT !.success = TRUE]

\* saveSubmission on an array: the entry is pushed, the whole log is
\* written to localStorage and the count is displayed
saveSubmission(subs, data) ==
    LET pushed == pushSubmission(subs, data)
    IN  [submissions |-> pushed,
         stored |-> StoredItem(JSONstringify(pushed)),
         counter |-> updateSubmissionCount(pushed)]

\* the submit listener: handleSubmit.  When the log is no array, push raises
\* a TypeError after clearAllErrors has run, and the handler ends there.
HandleSubmit ==
    LET formData == FormDataOf(fields)
        validation == validateForm(formData)
    IN  /\ statics' = StaticsAfterForm(statics, formData)
        /\ shown' = NoFieldErrors
        /\ UNCHANGED <<pc, call, ret, probe, first>>
        /\ UNCHANGED taskVars
        /\ IF ~validation.isValid
           THEN /\ formErrors' = showFormErrors(validation.errors)
                /\ UNCHANGED <<fields, submissions, stored, counter>>
           ELSE IF PushThrows(submissions)
           THEN /\ formErrors' = NoFormErrors
                /\ UNCHANGED <<fields, submissions, stored, counter>>
           ELSE /\ Len(submissions.items) < MaxSubmissions
                /\ LET saved == saveSubmission(submissions, formData)
                   IN  /\ submissions' = saved.submissions
                       /\ stored' = saved.stored
                       /\ counter' = saved.counter
                /\ formErrors' = showSuccess(NoFormErrors)
                /\ fields' = ResetFields

\* the timer showSuccess sets removes the success message
SuccessTimeout ==
    /\ formErrors.success
    /\ formErrors' = [formErrors EXCEPT !.success = FALSE]
    /\ UNCHANGED <<valVars, fields, shown, submissions, stored, counter>>
    /\ UNCHANGED taskVars

\* the page is loaded again and a new ContactForm constructed
Reload ==
    LET loaded == loadSubmissions(stored, NoCount)
    IN  /\ fields' = ResetFields
        /\ shown' = NoFieldErrors
        /\ formErrors' = NoFormErrors
        /\ submissions' = loaded.submissions
        /\ counter' = loaded.counter
        /\ statics' = InitialStatics
        /\ UNCHANGED <<pc, call, ret, probe, first, stored>>
        /\ UNCHANGED taskVars

NextContact ==
    \/ Type
    \/ Blur
    \/ Focus
    \/ HandleSubmit
    \/ SuccessTimeout
    \/ Reload

SpecContact == InitContact /\ [][NextContact]_vars

-----------------------------------------------------------------------------
(* TaskManagerApp: the task list, nextId and localStorage.                 *)
(*                                                                         *)
(* A task is an object with the properties id, title, description,         *)
(* completed, createdAt and priority, in the order of the literal addTask  *)
(* builds.  A stored array holds such objects, each with a number id.      *)
(* The page holds the elements #taskList and #taskCounter; #taskList is    *)
(* modelled by the tasks it shows, and #taskCounter holds no text until    *)
(* the program writes one.  The page marks the filter button of "all" as   *)
(* the active one.                                                         *)

MaxTasks == 3
MaxId == 4

Priority ==
    [Low |-> <<"l", "o", "w">>,
     Medium |-> <<"m", "e", "d", "i", "u", "m">>,
     High |-> <<"h", "i", "g", "h">>]

\* the titles, descriptions, priorities and times of creation of the tasks
\* the user adds
TaskTitles == {<<"t">>}
TaskDescriptions == {<<"d">>}
TaskPriorities == {Priority.High}
TaskTimes == {7}

\* does the object have a property of the key
HasKey(obj, key) == \E i \in 1..Len(obj.props) : obj.props[i].key = key

\* obj[key], the object having the property
Get(obj, key) ==
    obj.props[CHOOSE i \in 1..Len(obj.props) : obj.props[i].key = key].value

\* { ...obj, key: value }: the property takes the value at its place, or is
\* added after the others
Put(obj, key, value) ==
    IF HasKey(obj, key)
    THEN JSObject([i \in 1..Len(obj.props) |->
                     IF obj.props[i].key = key THEN Prop(key, value) ELSE obj.props[i]])
    ELSE JSObject(Append(obj.props, Prop(key, value)))

\* new Date(value): the time an ISO string or a number stands for; null
\* and false count as 0 and true as 1; undefined and a string that is no
\* date give an Invalid Date
newDate(value) ==
    CASE value.t = "string" /\ IsISOString(value.s) ->
             JSDate(TimeOfISOString(value.s))
      [] value.t = "number" -> JSDate(value.n)
      [] value.t = "null" -> JSDate(0)
      [] value.t = "boolean" -> JSDate(IF value.b THEN 1 ELSE 0)
      [] OTHER -> InvalidDate

\* the object literal of addTask
NewTask(id, title, description, priority, now) ==
    JSObject(<<Prop("id", JSNumber(id)),
               Prop("title", JSString(title)),
               Prop("description", JSString(description)),
               Prop("completed", JSBoolean(FALSE)),
               Prop("createdAt", JSDate(now)),
               Prop("priority", JSString(priority))>>)

TaskId(task) == Get(task, "id").n

\* the ids of the tasks of a list
Ids(ts) == {TaskId(ts[i]) : i \in 1..Len(ts)}

\* Math.max of a non-empty set of numbers
MathMax(S) == CHOOSE m \in S : \A x \in S : x <= m

\* a nextId that counts the tasks loaded
nextIdAfterLoad_Count(ts) == Len(ts) + 1

\* Math.max(...this.tasks.map(t => t.id)) + 1
nextIdAfterLoad(ts) == MathMax(Ids(ts)) + 1

\* ({ ...task, createdAt: new Date(task.createdAt) })
Revived(task) ==
    Put(task, "createdAt",
        newDate(IF HasKey(task, "createdAt") THEN Get(task, "createdAt")
                ELSE JSUndefined))

\* loadTasksFromStorage: the list and nextId after it, these being [] and 1
\* before it.  A SyntaxError of JSON.parse and the TypeError of parsed.map
\* on a value that is no array are caught, and the list is then [].
loadTasksFromStorage(item) ==
    IF ~ItemTruthy(item) THEN [tasks |-> <<>>, nextId |-> 1]
    ELSE LET r == JSONparse(item.text)
         IN  IF ~r.ok \/ r.value.t # "array" THEN [tasks |-> <<>>, nextId |-> 1]
             ELSE LET ts == [i \in 1..Len(r.value.items) |-> Revived(r.value.items[i])]
                  IN  [tasks |-> ts,
                       nextId |-> IF Len(ts) > 0 THEN nextIdAfterLoad(ts) ELSE 1]

\* a save that leaves the completed tasks out
saveTasksToStorage_ActiveOnly(ts) ==
    StoredItem(JSONstringify(JSArray(
        SelectSeq(ts, LAMBDA task : ~Get(task, "completed").b))))

\* saveTasksToStorage: the item 'tasks' after it
saveTasksToStorage(ts) == StoredItem(JSONstringify(JSArray(ts)))

\* a task an earlier visit saved
EarlierTask(id, completed) ==
    Put(NewTask(id, <<"t">>, <<"d">>, Priority.Medium, 3),
        "completed", JSBoolean(completed))

\* what localStorage holds when the page is loaded: nothing, a text that is
\* no JSON, the JSON of a value that is no array, the JSON of a list of
\* tasks with distinct ids
StoredTasksAtLoad ==
    {NoItem, StoredItem(<<Tok("{")>>), StoredItem(JSONstringify(JSObject(<<>>)))}
    \cup {saveTasksToStorage(ts) :
            ts \in {<<>>,
                    <<EarlierTask(2, FALSE)>>,
                    <<EarlierTask(3, TRUE), EarlierTask(1, FALSE)>>}}

TaskStatus == {"all", "active", "completed"}

\* task.completed
Completed(task) == Get(task, "completed").b

\* a filterTasks whose "completed" gives the tasks that are not completed
filterTasks_Inverted(ts, status) ==
    CASE status = "active" -> SelectSeq(ts, LAMBDA task : ~Completed(task))
      [] status = "completed" -> SelectSeq(ts, LAMBDA task : ~Completed(task))
      [] OTHER -> ts

filterTasks(ts, status) ==
    CASE status = "active" -> SelectSeq(ts, LAMBDA task : ~Completed(task))
      [] status = "completed" -> SelectSeq(ts, LAMBDA task : Completed(task))
      [] OTHER -> ts

\* the text updateCounter writes
updateCounter(ts) ==
    ToString(Len(filterTasks(ts, "active"))) \o " active / "
    \o ToString(Len(ts)) \o " total tasks"

\* renderTasks(filter): what #taskList shows and the text of #taskCounter
\* after it, the text being c before it.  When no task passes the filter
\* the list shows the "no tasks" paragraph and the counter is not written.
renderTasks(ts, filter, c) ==
    LET filteredTasks == filterTasks(ts, filter)
    IN  IF Len(filteredTasks) = 0
        THEN [taskList |-> <<>>, taskCounter |-> c]
        ELSE [taskList |-> filteredTasks, taskCounter |-> updateCounter(ts)]

\* the page is loaded and new TaskManagerApp() has run, localStorage
\* holding the item
Constructed(item) ==
    LET loaded == loadTasksFromStorage(item)
        rendered == renderTasks(loaded.tasks, "all", "")
    IN  /\ storedTasks = item
        /\ tasks = loaded.tasks
        /\ nextId = loaded.nextId
        /\ taskList = rendered.taskList
        /\ taskCounter = rendered.taskCounter
        /\ activeFilter = "all"
        /\ added = Ids(loaded.tasks)

InitTasks ==
    /\ statics = InitialStatics
    /\ ValidatorIdle
    /\ NoContactForm
    /\ \E item \in StoredTasksAtLoad : Constructed(item)

\* the list is saved and rendered anew
SavedAndRendered ==
    /\ storedTasks' = saveTasksToStorage(tasks')
    /\ taskList' = renderTasks(tasks', "all", taskCounter).taskList
    /\ taskCounter' = renderTasks(tasks', "all", taskCounter).taskCounter

addTask ==
    \E title \in TaskTitles, description \in TaskDescriptions,
       priority \in TaskPriorities, now \in TaskTimes :
        /\ Len(tasks) < MaxTasks
        /\ nextId <= MaxId
        /\ tasks' = Append(tasks, NewTask(nextId, title, description, priority, now))
        /\ nextId' = nextId + 1
        /\ added' = added \cup {nextId}
        /\ SavedAndRendered
        /\ UNCHANGED <<valVars, contactVars, activeFilter>>

\* a filter that drops the first task of the id only
WithoutId_FirstOnly(ts, id) ==
    IF \E i \in 1..Len(ts) : Get(ts[i], "id").n = id
    THEN LET i == CHOOSE k \in 1..Len(ts) :
                     /\ Get(ts[k], "id").n = id
                     /\ \A j \in 1..(k - 1) : Get(ts[j], "id").n # id
         IN  SubSeq(ts, 1, i - 1) \o SubSeq(ts, i + 1, Len(ts))
    ELSE ts

\* this.tasks.filter(task => task.id !== id)
WithoutId(ts, id) == SelectSeq(ts, LAMBDA task : TaskId(task) # id)

deleteTaskOf(id) ==
    /\ tasks' = WithoutId(tasks, id)
    /\ SavedAndRendered
    /\ UNCHANGED <<valVars, contactVars, nextId, activeFilter, added>>

deleteTask == \E id \in 0..MaxId : deleteTaskOf(id)

\* the place of the first task of the id, 0 when there is none
FindId(ts, id) ==
    IF id \in Ids(ts)
    THEN CHOOSE i \in 1..Len(ts) :
            /\ TaskId(ts[i]) = id
            /\ \A j \in 1..(i - 1) : TaskId(ts[j]) # id
    ELSE 0

\* task.completed = !task.completed, on the task at place i
Flipped(ts, i) ==
    [ts EXCEPT ![i] = Put(@, "completed", JSBoolean(~Completed(@)))]

\* does toggleTask save the list when the task is at place i (0: not found)
toggleSaves_Always(i) == TRUE
toggleSaves(i) == i # 0

\* the list after toggleTask(id)
Toggled(ts, id) ==
    LET i == FindId(ts, id) IN IF i # 0 THEN Flipped(ts, i) ELSE ts

toggleTaskOf(id) ==
    LET i == FindId(tasks, id)
    IN  /\ tasks' = Toggled(tasks, id)
        /\ IF toggleSaves(i)
           THEN SavedAndRendered
           ELSE UNCHANGED <<storedTasks, taskList, taskCounter>>
        /\ UNCHANGED <<valVars, contactVars, nextId, activeFilter, added>>

toggleTask == \E id \in 0..MaxId : toggleTaskOf(id)

\* a click on a filter button: the button becomes the active one, then
\* renderTasks(filter)
filterClick ==
    \E filter \in TaskStatus :
        /\ activeFilter' = filter
        /\ taskList' = renderTasks(tasks, filter, taskCounter).taskList
        /\ taskCounter' = renderTasks(tasks, filter, taskCounter).taskCounter
        /\ UNCHANGED <<valVars, contactVars, tasks, nextId, storedTasks, added>>

\* the page is loaded again and a new TaskManagerApp constructed
ReloadTasks ==
    LET loaded == loadTasksFromStorage(storedTasks)
        rendered == renderTasks(loaded.tasks, "all", "")
    IN  /\ tasks' = loaded.tasks
        /\ nextId' = loaded.nextId
        /\ taskList' = rendered.taskList
        /\ taskCounter' = rendered.taskCounter
        /\ activeFilter' = "all"
        /\ UNCHANGED <<valVars, contactVars, storedTasks, added>>

NextTasks ==
    \/ addTask
    \/ deleteTask
    \/ toggleTask
    \/ filterClick
    \/ ReloadTasks

SpecTasks == InitTasks /\ [][NextTasks]_vars

\* what localStorage may hold besides: a list in which two tasks have the
\* same id, and a list of a task whose createdAt is no date
InitTasksAnyIds ==
    LET StoredTasksAnyIds ==
            StoredTasksAtLoad
            \cup {saveTasksToStorage(<<EarlierTask(2, FALSE), EarlierTask(1, TRUE),
                                       EarlierTask(2, TRUE)>>),
                  saveTasksToStorage(<<Put(EarlierTask(1, FALSE), "createdAt",
                                           JSString(<<"x">>))>>)}
    IN  /\ statics = InitialStatics
        /\ ValidatorIdle
        /\ NoContactForm
        /\ \E item \in StoredTasksAnyIds : Constructed(item)

SpecTasksAnyIds == InitTasksAnyIds /\ [][NextTasks]_vars

\* a call of fn has returned
Returned(fn) == pc = "return" /\ call.fn = fn

-----------------------------------------------------------------------------
(* Properties of validateForm.                                            *)

\* how many times message m occurs in the list errs
Count(m, errs) == Cardinality({i \in 1..Len(errs) : errs[i] = m})

\* the place of a message in the order name, email, phone, message
Rank(m) ==
    CASE m = NAME_ERROR -> 1
      [] m = EMAIL_ERROR -> 2
      [] m = PHONE_ERROR -> 3
      [] m = MESSAGE_ERROR -> 4
      [] OTHER -> 0

\* C1: the result of validateForm has isValid = TRUE if and only if its
\* errors list is empty.
C1_IsValidIffNoErrors ==
    Returned("validateForm") => (ret.isValid <=> ret.errors = <<>>)

\* a form with a non-empty phone was accepted with no error
C1_Witness ==
    /\ Returned("validateForm")
    /\ PhoneTruthy(call.arg)
    /\ ret.isValid /\ ret.errors = <<>>

\* C2: validateForm does not short-circuit: the name, email and message
\* messages each occur once when their rule rejects the field and never
\* otherwise, whatever the other rules decide.
C2_NoShortCircuit ==
    Returned("validateForm") =>
        /\ Count(NAME_ERROR, ret.errors)
             = (IF validateName(call.arg.name) THEN 0 ELSE 1)
        /\ Count(EMAIL_ERROR, ret.errors)
             = (IF validateEmail(call.arg.email) THEN 0 ELSE 1)
        /\ Count(MESSAGE_ERROR, ret.errors)
             = (IF validateMessage(call.arg.message) THEN 0 ELSE 1)

\* a form failing the name, email and message rules at once got all three
\* messages
C2_Witness ==
    /\ Returned("validateForm")
    /\ ~validateName(call.arg.name)
    /\ ~validateEmail(call.arg.email)
    /\ ~validateMessage(call.arg.message)
    /\ ret.errors = <<NAME_ERROR, EMAIL_ERROR, MESSAGE_ERROR>>

\* C3: the errors list is in the order name, email, phone, message,
\* whichever subset of the rules fails.
C3_FixedOrder ==
    Returned("validateForm") =>
        /\ \A i \in 1..Len(ret.errors) : Rank(ret.errors[i]) >= 1
        /\ \A i, j \in 1..Len(ret.errors) :
               i < j => Rank(ret.errors[i]) < Rank(ret.errors[j])

\* a form failing all four rules got the four messages
C3_Witness ==
    /\ Returned("validateForm")
    /\ Len(ret.errors) = 4

\* C4: the phone message is reported if and only if phone is present,
\* non-empty and rejected by the phone rule.
C4_PhoneOptional ==
    Returned("validateForm") =>
        (Count(PHONE_ERROR, ret.errors) >= 1
            <=> /\ HasPhone(call.arg)
                /\ call.arg.phone # <<>>
                /\ ~validatePhone(call.arg.phone))

\* a form without phone was rejected for other reasons, with no phone message
C4_Witness ==
    /\ Returned("validateForm")
    /\ ~HasPhone(call.arg)
    /\ ret.errors # <<>>
    /\ Count(PHONE_ERROR, ret.errors) = 0

-----------------------------------------------------------------------------
(* Properties of the four rules.                                          *)

\* the whitespace characters of the claims
IsSpace(c) == c \in {" ", "\t", "\n"}

\* the length of s from its first to its last non-whitespace character
TrimmedLen(s) ==
    LET I == {i \in 1..Len(s) : ~IsSpace(s[i])}
    IN  IF I = {} THEN 0
        ELSE (CHOOSE i \in I : \A j \in I : j <= i)
             - (CHOOSE i \in I : \A j \in I : i <= j) + 1

\* C5: validateName(s) is true iff s without its leading and trailing
\* whitespace has length >= 2; a whitespace-only string is rejected.
C5_NameRule ==
    Returned("validateName") =>
        /\ ret <=> TrimmedLen(call.arg) >= 2
        /\ (\A i \in 1..Len(call.arg) : IsSpace(call.arg[i])) => ~ret

\* a whitespace-only name of length >= 2 was rejected
C5_Witness ==
    /\ Returned("validateName")
    /\ Len(call.arg) >= 2
    /\ \A i \in 1..Len(call.arg) : IsSpace(call.arg[i])
    /\ ret = FALSE

\* C6: validateMessage(s) is true iff s without its leading and trailing
\* whitespace has length >= 10; 10 is accepted and 9 rejected.
C6_MessageRule ==
    Returned("validateMessage") =>
        /\ ret <=> TrimmedLen(call.arg) >= 10
        /\ TrimmedLen(call.arg) = 10 => ret
        /\ TrimmedLen(call.arg) = 9 => ~ret

\* a message of 10 characters after trimming, longer before, was accepted
C6_Witness ==
    /\ Returned("validateMessage")
    /\ TrimmedLen(call.arg) = 10
    /\ Len(call.arg) > 10
    /\ ret = TRUE

\* the positions of character c in s
Positions(s, c) == {i \in 1..Len(s) : s[i] = c}

\* no whitespace, exactly one '@' with something before it, and after it a
\* '.' that is neither the first nor the last character
EmailShape(e) ==
    /\ \A i \in 1..Len(e) : ~IsSpace(e[i])
    /\ Cardinality(Positions(e, "@")) = 1
    /\ LET at == CHOOSE i \in Positions(e, "@") : TRUE
       IN  /\ at > 1
           /\ \E d \in Positions(e, ".") : at + 1 < d /\ d < Len(e)

\* C7: validateEmail(e) is true iff e has no whitespace, exactly one '@', a
\* non-empty part before it, and after it a '.' that is neither first nor
\* last; consecutive dots in the domain are accepted.
C7_EmailRule ==
    Returned("validateEmail") => (ret <=> EmailShape(call.arg))

\* an address with two consecutive dots after the '@' was accepted
C7_Witness ==
    /\ Returned("validateEmail")
    /\ ret = TRUE
    /\ \E i \in 1..(Len(call.arg) - 1) : call.arg[i] = "." /\ call.arg[i + 1] = "."

\* a digit, a whitespace character, '-', '+', '(' or ')'
IsPhoneChar(c) ==
    \/ c \in {"0", "1", "2", "3", "4", "5", "6", "7", "8", "9"}
    \/ IsSpace(c)
    \/ c \in {"-", "+", "(", ")"}

\* C8: validatePhone(p) is true iff p is empty or every character of p is a
\* digit, whitespace, '-', '+', '(' or ')'.
C8_PhoneRule ==
    Returned("validatePhone") =>
        (ret <=> (call.arg = <<>> \/ \A i \in 1..Len(call.arg) : IsPhoneChar(call.arg[i])))

\* a non-empty phone made only of whitespace was accepted
C8_Witness ==
    /\ Returned("validatePhone")
    /\ call.arg # <<>>
    /\ \A i \in 1..Len(call.arg) : IsSpace(call.arg[i])
    /\ ret = TRUE

-----------------------------------------------------------------------------
(* Properties of the per-field check.                                     *)

\* the form with value v in the field of the given id, the others empty
FormOf(id, v) ==
    [name |-> IF id = "contactName" THEN v ELSE <<>>,
     email |-> IF id = "contactEmail" THEN v ELSE <<>>,
     phone |-> IF id = "contactPhone" THEN v ELSE <<>>,
     message |-> IF id = "contactMessage" THEN v ELSE <<>>]

\* the message validateForm reports for the field of the given id
FormMessage(id) ==
    CASE id = "contactName" -> NAME_ERROR
      [] id = "contactEmail" -> EMAIL_ERROR
      [] id = "contactPhone" -> PHONE_ERROR
      [] id = "contactMessage" -> MESSAGE_ERROR

\* validateForm rejects value v in the field of the given id
FormRejects(id, v) == Count(FormMessage(id), validateForm(FormOf(id, v)).errors) >= 1

\* C9: validateField shows an error on a field of the form iff validateForm
\* rejects that value in that field, never on an empty contactPhone; and
\* validateForm accepts a form iff validateField shows no error on any of
\* its four fields.
C9_FieldMirrorsForm ==
    /\ (Returned("validateField") /\ call.arg.id \in FormFieldIds) =>
          /\ ret.error # "" <=> FormRejects(call.arg.id, call.arg.value)
          /\ ret.cls <=> ret.error # ""
          /\ (call.arg.id = "contactPhone" /\ call.arg.value = <<>>) => ret.error = ""
    /\ (Returned("validateForm") /\ HasPhone(call.arg)) =>
          (ret.isValid <=>
              /\ validateField([id |-> "contactName", value |-> call.arg.name,
                                error |-> "", cls |-> FALSE]).error = ""
              /\ validateField([id |-> "contactEmail", value |-> call.arg.email,
                                error |-> "", cls |-> FALSE]).error = ""
              /\ validateField([id |-> "contactPhone", value |-> call.arg.phone,
                                error |-> "", cls |-> FALSE]).error = ""
              /\ validateField([id |-> "contactMessage", value |-> call.arg.message,
                                error |-> "", cls |-> FALSE]).error = "")

\* an empty contactPhone that showed an earlier error was cleared on blur
C9_Witness ==
    /\ Returned("validateField")
    /\ call.arg.id = "contactPhone"
    /\ call.arg.value = <<>>
    /\ call.arg.error # ""
    /\ ret.error = ""

\* C10: validateField on a field whose id is none of the four shows no
\* error, for every value, and returns.
C10_UnknownFieldPasses ==
    (pc = "return" /\ call.fn = "validateField" /\ call.arg.id \notin FormFieldIds) =>
        /\ ret.error = ""
        /\ ret.cls = FALSE
        /\ ret.id = call.arg.id /\ ret.value = call.arg.value

\* a field of another id with a value no rule would accept showed no error
C10_Witness ==
    /\ Returned("validateField")
    /\ call.arg.id \notin FormFieldIds
    /\ ~validateName(call.arg.value)
    /\ ~validateEmail(call.arg.value)
    /\ ret.error = ""

-----------------------------------------------------------------------------
(* Properties of the validator as a whole.                                *)

\* the four messages validateForm can report
FormMessages4 == {NAME_ERROR, EMAIL_ERROR, PHONE_ERROR, MESSAGE_ERROR}

\* C11: the validator never throws: no call on strings, or on a form whose
\* phone is a string or absent, ends with an exception; the four rules
\* return a boolean and validateForm a ValidationResult.
C11_NeverThrows ==
    /\ pc # "throw"
    /\ (pc = "return" /\ call.fn \in {"validateName", "validateEmail",
                                      "validatePhone", "validateMessage"})
          => ret \in BOOLEAN
    /\ Returned("validateForm") =>
          /\ DOMAIN ret = {"isValid", "errors"}
          /\ ret.isValid \in BOOLEAN
          /\ \A i \in 1..Len(ret.errors) : ret.errors[i] \in FormMessages4

\* validateForm returned a result for a form without phone
C11_Witness ==
    /\ Returned("validateForm")
    /\ ~HasPhone(call.arg)
    /\ ret.isValid \in BOOLEAN

\* C12: validateForm called again on the same input, whatever validator
\* calls were made in between, returns the same isValid and the same errors.
C12_Deterministic ==
    (Returned("validateForm") /\ call.arg = probe /\ first.seen) =>
        /\ ret.isValid = first.result.isValid
        /\ ret.errors = first.result.errors

\* a form with a non-empty phone was accepted a second time, after other
\* calls
C12_Witness ==
    /\ Returned("validateForm")
    /\ call.arg = probe
    /\ first.seen /\ first.others
    /\ PhoneTruthy(probe)
    /\ ret.isValid /\ first.result.isValid

\* C13: the static properties keep the value they had at initialisation over
\* any sequence of validator calls, and a call leaves its argument as it was.
C13_NothingMutated ==
    /\ [](statics = InitialStatics)
    /\ [][pc = "call" => call' = call]_vars

\* a later validateForm call that ran both regular expressions has returned
C13_Witness ==
    /\ Returned("validateForm")
    /\ first.seen
    /\ PhoneTruthy(call.arg)
    /\ validateEmail(call.arg.email)
    /\ statics = InitialStatics

-----------------------------------------------------------------------------
(* Properties of the message texts.                                       *)

\* the text validateForm is to report for a short message under minimum n
FormMessageText(n) == "Message must be at least " \o ToString(n) \o " characters long"

\* the text validateField is to show for a short message under minimum n
FieldMessageText(n) == "Message must be at least " \o ToString(n) \o " characters"

\* C14: for any value N of MIN_MESSAGE_LENGTH, validateMessage accepts
\* exactly the strings of trimmed length >= N, and the message-length texts
\* of validateForm and of validateField both name that N.
C14_SameMinimumEverywhere ==
    LET N == statics.MIN_MESSAGE_LENGTH
    IN  /\ Returned("validateMessage") => (ret <=> TrimmedLen(call.arg) >= N)
        /\ Returned("validateForm") =>
              (Count(FormMessageText(N), ret.errors)
                 = (IF TrimmedLen(call.arg.message) >= N THEN 0 ELSE 1))
        /\ (Returned("validateField") /\ call.arg.id = "contactMessage") =>
              (ret.error
                 = (IF TrimmedLen(call.arg.value) >= N THEN "" ELSE FieldMessageText(N)))

\* under a minimum other than 10 a short message was shown the field text
C14_Witness ==
    /\ Returned("validateField")
    /\ call.arg.id = "contactMessage"
    /\ statics.MIN_MESSAGE_LENGTH # MIN_MESSAGE_LENGTH
    /\ ret.error = FieldMessageText(statics.MIN_MESSAGE_LENGTH)

\* the phone rule rejects p
PhoneRejected(p) == p # <<>> /\ \E i \in 1..Len(p) : ~IsPhoneChar(p[i])

\* the texts validateForm is to report for a form, by rule, under minimum n
FormTexts(data, n) ==
    (IF TrimmedLen(data.name) >= 2 THEN <<>>
     ELSE <<"Name must be at least 2 characters long">>)
    \o (IF EmailShape(data.email) THEN <<>>
        ELSE <<"Please enter a valid email address">>)
    \o (IF HasPhone(data) /\ PhoneRejected(data.phone)
        THEN <<"Please enter a valid phone number">> ELSE <<>>)
    \o (IF TrimmedLen(data.message) >= n THEN <<>> ELSE <<FormMessageText(n)>>)

\* the text validateField is to show on a field, by rule, under minimum n
FieldText(id, v, n) ==
    CASE id = "contactName" ->
           IF TrimmedLen(v) >= 2 THEN "" ELSE "Name must be at least 2 characters"
      [] id = "contactEmail" ->
           IF EmailShape(v) THEN "" ELSE "Invalid email address"
      [] id = "contactPhone" ->
           IF PhoneRejected(v) THEN "Invalid phone number" ELSE ""
      [] id = "contactMessage" ->
           IF TrimmedLen(v) >= n THEN "" ELSE FieldMessageText(n)
      [] OTHER -> ""

\* C15 as stated: the text of a failing rule depends only on the rule and
\* the minimum, and validateField shows the text validateForm reports for
\* the same rule failing on the same value.
C15_SameTextInFormAndField ==
    /\ Returned("validateForm") =>
          ret.errors = FormTexts(call.arg, statics.MIN_MESSAGE_LENGTH)
    /\ (Returned("validateField") /\ call.arg.id \in FormFieldIds /\ ret.error # "") =>
          Count(ret.error, validateForm(FormOf(call.arg.id, call.arg.value)).errors) = 1

\* C15, amended: the text of a failing rule depends only on the rule, the
\* minimum and the operation that reports it, not on the input value;
\* validateForm and validateField each have their own text for a rule, and
\* the two differ.
C15_TextPerRuleAndOperation ==
    /\ Returned("validateForm") =>
          ret.errors = FormTexts(call.arg, statics.MIN_MESSAGE_LENGTH)
    /\ Returned("validateField") =>
          /\ ret.error
               = FieldText(call.arg.id, call.arg.value, statics.MIN_MESSAGE_LENGTH)
          /\ ret.error # "" =>
               Count(ret.error, validateForm(FormOf(call.arg.id, call.arg.value)).errors) = 0

\* a rejected name was shown the field text, which is not the form's
C15_Witness ==
    /\ Returned("validateField")
    /\ call.arg.id = "contactName"
    /\ ret.error = "Name must be at least 2 characters"
    /\ Count("Name must be at least 2 characters long",
             validateForm(FormOf(call.arg.id, call.arg.value)).errors) = 1

-----------------------------------------------------------------------------
(* The submission log.                                                     *)

\* the form is valid: validateForm on the values of the inputs gives isValid
FormValid == validateForm(FormDataOf(fields)).isValid

\* the log is an array and the step appends the entry to it
Appended(entry) ==
    /\ submissions.t = "array"
    /\ submissions'.t = "array"
    /\ submissions'.items = Append(submissions.items, entry)

\* what C16 says of a step of the submit listener
SubmitAcceptsIffValid ==
    IF FormValid
    THEN Appended(SpreadOf(FormDataOf(fields)))
    ELSE /\ UNCHANGED <<submissions, stored, fields>>
         /\ formErrors'.errors = validateForm(FormDataOf(fields)).errors
         /\ formErrors'.errors # <<>>

\* C16: handleSubmit accepts a submission iff validateForm on the values of
\* the inputs gives isValid = true: when valid, exactly one entry equal to
\* the raw name, email, message and phone is appended to the log; when
\* invalid, the log, the stored 'contactSubmissions' and the inputs stay as
\* they are and the errors are shown.
C16_SubmitAcceptsIffValid == [][HandleSubmit => SubmitAcceptsIffValid]_vars

\* C16 where the log is an array when the submit listener runs
C16_WhenLogIsArray ==
    [][HandleSubmit /\ submissions.t = "array" => SubmitAcceptsIffValid]_vars

\* does log hold every entry of old at its place, and at most one more
KeepsEntries(old, log) ==
    /\ Len(log) \in {Len(old), Len(old) + 1}
    /\ SubSeq(log, 1, Len(old)) = old

\* C17: the submission log is append-only: every step the page takes (the
\* submit, blur and focus listeners, an edit, the success timer, and a
\* reload, which reads the log back) leaves the log as it is or appends one
\* entry at its end; the length never decreases and every entry stays at
\* its position with its values.
C17_LogAppendOnly ==
    [][\/ submissions' = submissions
       \/ /\ submissions.t = "array"
          /\ submissions'.t = "array"
          /\ KeepsEntries(submissions.items, submissions'.items)
          /\ Len(submissions'.items) = Len(submissions.items) + 1]_vars

\* C17 witness: the log loaded with an earlier entry has grown by a
\* submission, the earlier entry is still its first, and a blur has since
\* shown an error on the name
C17_Witness ==
    /\ submissions.t = "array"
    /\ Len(submissions.items) = 2
    /\ submissions.items[1] = EarlierEntry
    /\ submissions.items[2].props[1].value = JSString(<<" ", "A", "l", " ">>)
    /\ shown["contactName"].cls

\* what C18 says of the state after an accepted submission
StoredMirrorsLog ==
    /\ submissions'.t = "array"
    /\ stored' = StoredItem(JSONstringify(submissions'))
    /\ counter' = "Total submissions: " \o ToString(Len(submissions'.items))
    /\ loadSubmissions(stored', NoCount).submissions = submissions'

\* C18: after every accepted submission the stored 'contactSubmissions' is
\* the serialization of the whole log, the displayed count is the length of
\* the log, and a new ContactForm constructed from the stored value has a
\* log of the same entries in the same order.
C18_StoredMirrorsLog == [][HandleSubmit /\ FormValid => StoredMirrorsLog]_vars

\* C18 where the log is an array when the submit listener runs
C18_WhenLogIsArray ==
    [][HandleSubmit /\ FormValid /\ submissions.t = "array" => StoredMirrorsLog]_vars

\* C19: whatever is stored under 'contactSubmissions' when the ContactForm
\* is constructed, the submission log is a list afterwards (so that a later
\* valid submit is appended and saved).
C19_LogIsAList == submissions.t = "array"

\* C19 for what the claim says follows: a valid submit is appended and saved
C19_ValidSubmitSaved ==
    [][HandleSubmit /\ FormValid
         => /\ Appended(SpreadOf(FormDataOf(fields)))
            /\ stored' = StoredItem(JSONstringify(submissions'))]_vars

-----------------------------------------------------------------------------
(* The task list.                                                          *)

\* C20: task ids never conflict: from an empty list or a stored list with
\* pairwise distinct ids, after any sequence of addTask, deleteTask and
\* toggleTask (and of reloads) the tasks of the list have pairwise distinct
\* ids and nextId is greater than the id of every task of the list.
C20_IdsNeverConflict ==
    /\ \A i, j \in 1..Len(tasks) : i # j => TaskId(tasks[i]) # TaskId(tasks[j])
    /\ \A i \in 1..Len(tasks) : nextId > TaskId(tasks[i])

\* C20 witness: of the stored tasks 3 and 1, task 1 is deleted; task 4 is
\* added and toggled
C20_Witness ==
    /\ Len(tasks) = 2
    /\ TaskId(tasks[1]) = 3
    /\ TaskId(tasks[2]) = 4
    /\ Get(tasks[2], "completed").b
    /\ nextId = 5

\* C21: a task id is never reused: over any sequence of addTask,
\* deleteTask, toggleTask and page reload, the id addTask gives to the new
\* task differs from the id of every task added before, the deleted ones
\* included.
C21_IdNeverReused == [][addTask => TaskId(tasks'[Len(tasks')]) \notin added]_vars

\* is r the tasks of ts at the places I, in the order of ts
IsSelectionOf(r, ts, I) ==
    /\ Len(r) = Cardinality(I)
    /\ \A i \in I : r[Cardinality({j \in I : j <= i})] = ts[i]

\* the places of the tasks of ts whose id is not id
PlacesNotOf(ts, id) == {i \in 1..Len(ts) : TaskId(ts[i]) # id}

\* C22: deleteTask(id) removes exactly the tasks whose id is id: every
\* other task stays in the list as it is and in the same order, nextId is
\* unchanged, and deleting an id that is not in the list leaves the list
\* unchanged.
C22_DeleteRemovesExactly ==
    [][\A id \in 0..MaxId :
         deleteTaskOf(id)
           => /\ IsSelectionOf(tasks', tasks, PlacesNotOf(tasks, id))
              /\ nextId' = nextId
              /\ (id \notin Ids(tasks) => tasks' = tasks)]_vars

\* C22 witness: of the stored tasks 2, 1, 2 both tasks of id 2 are deleted
\* and the task between them is left, with nextId still 3
C22_Witness ==
    /\ tasks = <<EarlierTask(1, TRUE)>>
    /\ nextId = 3
    /\ storedTasks = StoredItem(JSONstringify(JSArray(tasks)))

\* do the tasks a and b have the same properties in the same order, with
\* the same values but for completed
SameButCompleted(a, b) ==
    /\ Len(a.props) = Len(b.props)
    /\ \A k \in 1..Len(a.props) :
          /\ a.props[k].key = b.props[k].key
          /\ a.props[k].key # "completed" => a.props[k].value = b.props[k].value

\* what C23 says of a step of toggleTask(id)
ToggleFlipsOne(id) ==
    IF id \in Ids(tasks)
    THEN /\ Len(tasks') = Len(tasks)
         /\ \E i \in 1..Len(tasks) :
               /\ TaskId(tasks[i]) = id
               /\ Completed(tasks'[i]) = ~Completed(tasks[i])
               /\ SameButCompleted(tasks'[i], tasks[i])
               /\ \A j \in 1..Len(tasks) : j # i => tasks'[j] = tasks[j]
    ELSE UNCHANGED <<tasks, storedTasks>>

\* C23: toggleTask(id) flips the completed flag of the task of that id and
\* changes no other task, no other field, and neither the order nor the
\* length of the list; toggling the same id twice restores the list;
\* toggling an id that is not in the list changes nothing and writes
\* nothing to storage.
C23_ToggleFlipsOne ==
    /\ [](\A id \in 0..MaxId : Toggled(Toggled(tasks, id), id) = tasks)
    /\ [][\A id \in 0..MaxId : toggleTaskOf(id) => ToggleFlipsOne(id)]_vars

\* C23 witness: of the stored tasks 2, 1, 2, the first of id 2 is toggled
\* and saved
C23_Witness ==
    /\ tasks = <<EarlierTask(2, TRUE), EarlierTask(1, TRUE), EarlierTask(2, TRUE)>>
    /\ storedTasks = StoredItem(JSONstringify(JSArray(tasks)))

\* the places of the tasks of ts a filter of the status lets through
PlacesOfStatus(ts, status) ==
    {i \in 1..Len(ts) :
       CASE status = "active" -> ~Completed(ts[i])
         [] status = "completed" -> Completed(ts[i])
         [] OTHER -> TRUE}

\* what C24 says of filterTasks on the list ts
FilterPartitions(ts) ==
    LET active == filterTasks(ts, "active")
        completed == filterTasks(ts, "completed")
        all == filterTasks(ts, "all")
    IN  /\ IsSelectionOf(active, ts, {i \in 1..Len(ts) : ~Completed(ts[i])})
        /\ IsSelectionOf(completed, ts, {i \in 1..Len(ts) : Completed(ts[i])})
        /\ all = ts
        /\ \A k \in 1..Len(active) : ~Completed(active[k])
        /\ \A k \in 1..Len(completed) : Completed(completed[k])
        /\ Len(active) + Len(completed) = Len(all)

\* C24: filterTasks partitions the list: filterTasks("active") is exactly
\* the tasks with completed = false and filterTasks("completed") exactly
\* those with completed = true, both in list order; the two are disjoint
\* and together hold every task of filterTasks("all"), which is the whole
\* list; filterTasks does not change the list.
C24_FilterPartitions ==
    /\ []FilterPartitions(tasks)
    /\ [][filterClick
            => /\ tasks' = tasks
               /\ IsSelectionOf(taskList', tasks,
                                PlacesOfStatus(tasks, activeFilter'))]_vars

\* C24 witness: the filter "completed" shows some tasks of the list and
\* leaves others out
C24_Witness ==
    /\ activeFilter = "completed"
    /\ Len(taskList) >= 1
    /\ Len(taskList) < Len(tasks)
    /\ taskList = filterTasks(tasks, "completed")
    /\ \A k \in 1..Len(taskList) : Completed(taskList[k])

\* do the tasks a and b have the same id, title, description, completed
\* flag and priority
SameTask(a, b) ==
    \A key \in {"id", "title", "description", "completed", "priority"} :
        /\ HasKey(a, key)
        /\ HasKey(b, key)
        /\ Get(a, key) = Get(b, key)

\* what C25 says of the state after a step that saves
StoredInSync ==
    /\ storedTasks' = StoredItem(JSONstringify(JSArray(tasks')))
    /\ \A reloaded \in {loadTasksFromStorage(storedTasks').tasks} :
          /\ Len(reloaded) = Len(tasks')
          /\ \A i \in 1..Len(tasks') : SameTask(reloaded[i], tasks'[i])

\* C25: stored tasks stay in sync with the list: after every addTask,
\* deleteTask and effective toggleTask the stored 'tasks' is the
\* serialization of the list, and a page reload gives a list of the same
\* tasks in the same order with the same id, title, description, completed
\* flag and priority.
C25_StoredInSync ==
    [][(addTask \/ deleteTask \/ \E id \in Ids(tasks) : toggleTaskOf(id))
         => StoredInSync]_vars

\* C25 witness: the stored task whose createdAt was no date is toggled
\* and saved; a reload gives the same task but for its createdAt
C25_Witness ==
    /\ Len(tasks) = 1
    /\ Get(tasks[1], "createdAt") = InvalidDate
    /\ Completed(tasks[1])
    /\ storedTasks = StoredItem(JSONstringify(JSArray(tasks)))
    /\ SameTask(loadTasksFromStorage(storedTasks).tasks[1], tasks[1])
    /\ Get(loadTasksFromStorage(storedTasks).tasks[1], "createdAt") = JSDate(0)

====
